---- MODULE Spec2Model ----
(***************************************************************************)
(* A model of homework_bot (src/homework.py): the poll loop of main() with *)
(* get_api_answer, check_response, parse_status and send_message, the      *)
(* module-level error backlog error_messages and the dedup state of the    *)
(* outer error handler.                                                    *)
(*                                                                         *)
(* Texts are sequences of string tokens, so that f-string formatting is    *)
(* concatenation (\o).  Russian literals are transliterated to ASCII.      *)
(***************************************************************************)
EXTENDS Integers, Sequences, FiniteSets, TLC

(* ------------------------------ bounds --------------------------------- *)

\* The longest error backlog the model lets grow (the code has no cap).
MaxBacklog == 3

\* The longest `homeworks` list the API returns in the model.
MaxHomeworks == 2

\* time.time() when main() starts.
StartTime == 10000

\* The number of cycles of the poll loop the model follows.
MaxCycles == 2

\* How long a blocking requests.get may take (seconds): with the sleep, more
\* than the dedup window.
BlockTime == 4401

(* ------------------------- program constants --------------------------- *)

RETRY_PERIOD == 600

RETRY_PERIOD_ERROR_TIME == 5000

\* HTTPStatus.OK
HTTP_OK == 200

TokenNames == <<"PRACTICUM_TOKEN", "TELEGRAM_TOKEN", "TELEGRAM_CHAT_ID">>

\* constants.py is imported by homework.py; every constant is an opaque text.
api_is_not_dict == <<"api_is_not_dict">>
empty_api_keys == <<"empty_api_keys">>
empty_hmwrks_keys == <<"empty_hmwrks_keys">>
not_doc_status == <<"not_doc_status">>
hmwrks_is_not_list == <<"hmwrks_is_not_list">>
error_api_request == <<"error_api_request">>
endpoint_is_not_available == <<"endpoint_is_not_available">>
error_api_to_json == <<"error_api_to_json">>

HOMEWORK_VERDICTS ==
    [approved  |-> <<"Rabota proverena: revyueru vsyo ponravilos. Ura!">>,
     reviewing |-> <<"Rabota vzyata na proverku revyuerom.">>,
     rejected  |-> <<"Rabota proverena: u revyuera est zamechaniya.">>]

(* --------------------------- Python values ----------------------------- *)

\* None, as the value of last_error_message: no text is empty.
None == <<>>

\* An exception object: its class and the text it was constructed with.
Exc(type, args) == [type |-> type, args |-> args]

\* "No exception was raised".
NoError == Exc("None", <<>>)

\* str(error): KeyError shows the repr of its argument, the others the text.
StrOfError(e) ==
    IF e.type = "KeyError" THEN <<"'">> \o e.args \o <<"'">> ELSE e.args

Digit(d) ==
    CASE d = 0 -> "0" [] d = 1 -> "1" [] d = 2 -> "2" [] d = 3 -> "3"
      [] d = 4 -> "4" [] d = 5 -> "5" [] d = 6 -> "6" [] d = 7 -> "7"
      [] d = 8 -> "8" [] d = 9 -> "9"

\* The decimal digits of a natural number, as an f-string formats it.
RECURSIVE IntToStr(_)
IntToStr(n) ==
    IF n < 10 THEN <<Digit(n)>> ELSE IntToStr(n \div 10) \o <<Digit(n % 10)>>

\* list.remove(x): drops the first element equal to x.
RECURSIVE Remove(_, _)
Remove(s, x) ==
    IF s = <<>> THEN <<>>
    ELSE IF Head(s) = x THEN Tail(s)
    ELSE <<Head(s)>> \o Remove(Tail(s), x)

\* The result of a call: the exception it raised (or NoError), the value it
\* returned, and the error backlog as the call left it.
Result(raised, value, em) ==
    [raised |-> raised, value |-> value, error_messages |-> em]

(* ------------------------ the environment's inputs --------------------- *)

\* os.getenv: unset (None), set to the empty string, or set to a value.
TokenValues ==
    {[isNone |-> TRUE, str |-> ""], [isNone |-> FALSE, str |-> ""],
     [isNone |-> FALSE, str |-> "value"]}

Statuses == {"approved", "reviewing", "rejected", "unknown_status"}

\* One element of `homeworks`: a mapping with or without its two keys, or a
\* JSON number.
Hw(kind, hasName, hasStatus, name, status) ==
    [kind |-> kind, has_name |-> hasName, has_status |-> hasStatus,
     homework_name |-> name, status |-> status]

HomeworkRecords ==
    {Hw("dict", TRUE, TRUE, "hw1", s) : s \in Statuses}
    \cup {Hw("dict", FALSE, TRUE, "", "approved"),
          Hw("dict", TRUE, FALSE, "hw1", ""),
          Hw("int", FALSE, FALSE, "", "")}

HomeworkLists ==
    UNION {[1..n -> HomeworkRecords] : n \in 0..MaxHomeworks}

Dates == {StartTime - 100, StartTime + 100}

\* A decoded JSON body: a mapping (with or without its two keys, `homeworks`
\* a list or not) or something else (a list).
Body(kind, hasHw, hasCd, isList, hws, cd) ==
    [kind |-> kind, has_homeworks |-> hasHw, has_current_date |-> hasCd,
     homeworks_is_list |-> isList, homeworks |-> hws, current_date |-> cd]

\* The value of `response` before get_api_answer returned.
Unset == Body("unset", FALSE, FALSE, FALSE, <<>>, 0)

Bodies ==
    {Body("dict", TRUE, TRUE, TRUE, hws, cd) : hws \in HomeworkLists, cd \in Dates}
    \cup {Body("list", FALSE, FALSE, FALSE, <<>>, 0),
          Body("dict", FALSE, TRUE, FALSE, <<>>, StartTime + 100),
          Body("dict", TRUE, FALSE, TRUE, <<>>, 0),
          Body("dict", TRUE, TRUE, FALSE, <<>>, StartTime + 100)}

StatusCodes == {HTTP_OK, 204, 404, 500}

\* What requests.get meets: a transport failure, or a response with a status
\* code and a body that decodes as JSON or does not.
Http(net, code, jsonOk, body) ==
    [net |-> net, status_code |-> code, json_ok |-> jsonOk, body |-> body]

NoHttp == Http("unset", 0, FALSE, Unset)

HttpOutcomes ==
    {Http("ConnectionError", 0, FALSE, Unset)}
    \cup {Http("ok", c, FALSE, Unset) : c \in StatusCodes}
    \cup {Http("ok", HTTP_OK, TRUE, b) : b \in Bodies}

\* What bot.send_message does: delivers, raises ApiTelegramException, or
\* raises another exception (the transport's own, e.g. a connection error).
SendOutcomes == {"delivered", "ApiTelegramException", "ConnectionError"}

Delays == {0, BlockTime}

\* The inputs of the poll loop's model: one failure of the fetch, one of the
\* validation, one of the translation (at the first record and at a later
\* one), and valid responses with no records and with two.
Approved == Hw("dict", TRUE, TRUE, "hw1", "approved")

Unknown == Hw("dict", TRUE, TRUE, "hw2", "unknown_status")

LoopHomeworkLists ==
    {<<>>, <<Unknown>>, <<Approved, Approved>>, <<Approved, Unknown>>}

LoopBodies ==
    {Body("dict", TRUE, TRUE, TRUE, hws, cd) :
        hws \in LoopHomeworkLists, cd \in Dates}
    \cup {Body("list", FALSE, FALSE, FALSE, <<>>, 0)}

LoopHttpOutcomes ==
    {Http("ok", 500, FALSE, Unset)}
    \cup {Http("ok", HTTP_OK, TRUE, b) : b \in LoopBodies}

(* ------------------------------ functions ------------------------------ *)

\* bool(value) is False: None or the empty string.
Falsy(v) == v.isNone \/ v.str = ""

\* check_tokens with the test for None alone: an empty string passes.
check_tokens_NoneOnly(toks) ==
    IF \E i \in 1..Len(TokenNames) : toks[TokenNames[i]].isNone
    THEN [exit |-> 1, value |-> FALSE]
    ELSE [exit |-> 0, value |-> TRUE]

\* check_tokens(): the first token of TOKENS that is missing ends the process
\* with sys.exit(1); the second test repeats the first for None alone.
check_tokens(toks) ==
    IF \E i \in 1..Len(TokenNames) : Falsy(toks[TokenNames[i]])
    THEN [exit |-> 1, value |-> FALSE]
    ELSE IF \E i \in 1..Len(TokenNames) : toks[TokenNames[i]].isNone
    THEN [exit |-> 1, value |-> FALSE]
    ELSE [exit |-> 0, value |-> TRUE]

\* send_message without its except clause: ApiTelegramException reaches the
\* caller like any other exception of the transport.
send_message_Uncaught(text, outcome) ==
    IF outcome = "delivered" THEN Result(NoError, TRUE, <<>>)
    ELSE Result(Exc(outcome, <<"bot transport error">>), FALSE, <<>>)

\* send_message(bot, message): True when bot.send_message returned, False when
\* it raised ApiTelegramException; any other exception is not caught here.
send_message(text, outcome) ==
    IF outcome = "delivered" THEN Result(NoError, TRUE, <<>>)
    ELSE IF outcome = "ApiTelegramException" THEN Result(NoError, FALSE, <<>>)
    ELSE Result(Exc(outcome, <<"bot transport error">>), FALSE, <<>>)

\* response.raise_for_status(): raises HTTPError for a 4xx or 5xx status.
raise_for_status(code) == 400 <= code /\ code < 600

\* str(e) of the RequestException that requests.get or raise_for_status raised.
RequestErrorText(http) ==
    IF http.net # "ok" THEN <<http.net>>
    ELSE IntToStr(http.status_code) \o <<" Error">>

\* get_api_answer(timestamp), given what the request meets.
get_api_answer(http, em) ==
    IF http.net # "ok" \/ raise_for_status(http.status_code)
    THEN LET error_message == error_api_request \o <<" ">> \o RequestErrorText(http)
         IN  Result(Exc("ApiErrorException", error_message), Unset,
                    Append(em, error_message))
    ELSE IF http.status_code # HTTP_OK
    THEN LET error_message ==
                 endpoint_is_not_available \o IntToStr(http.status_code)
         IN  Result(Exc("NotAvailableEndPointException", error_message), Unset,
                    Append(em, error_message))
    ELSE IF ~http.json_ok
    THEN LET error_message == error_api_to_json \o <<"JSONDecodeError">>
         IN  Result(Exc("ApiErrorException", error_message), Unset,
                    Append(em, error_message))
    ELSE Result(NoError, http.body, em)

\* check_response with the two keys tested by `and`: a body that lacks only
\* one of them passes.
check_response_BothKeysMissing(resp, em) ==
    IF resp.kind # "dict"
    THEN Result(Exc("TypeError", api_is_not_dict), Unset,
                Append(em, api_is_not_dict))
    ELSE IF ~resp.has_homeworks /\ ~resp.has_current_date
    THEN Result(Exc("KeyError", empty_api_keys), Unset,
                Append(em, empty_api_keys))
    ELSE IF ~resp.homeworks_is_list
    THEN Result(Exc("TypeError", hmwrks_is_not_list), Unset,
                Append(em, hmwrks_is_not_list))
    ELSE Result(NoError, resp, em)

\* check_response(response).
check_response(resp, em) ==
    IF resp.kind # "dict"
    THEN Result(Exc("TypeError", api_is_not_dict), Unset,
                Append(em, api_is_not_dict))
    ELSE IF ~resp.has_homeworks \/ ~resp.has_current_date
    THEN Result(Exc("KeyError", empty_api_keys), Unset,
                Append(em, empty_api_keys))
    ELSE IF ~resp.homeworks_is_list
    THEN Result(Exc("TypeError", hmwrks_is_not_list), Unset,
                Append(em, hmwrks_is_not_list))
    ELSE Result(NoError, resp, em)

\* The sentence parse_status returns.
StatusMessage(homework_name, verdict) ==
    <<"Izmenilsya status proverki raboty \"", homework_name, "\". ">> \o verdict

\* parse_status with the append of the undocumented-status branch left out:
\* the ValueError is raised and nothing is queued.
parse_status_StatusNotQueued(homework, em) ==
    IF homework.kind # "dict"
    THEN Result(Exc("TypeError", <<"argument of type 'int' is not iterable">>),
                None, em)
    ELSE IF ~homework.has_name \/ ~homework.has_status
    THEN Result(Exc("KeyError", empty_hmwrks_keys), None,
                Append(em, empty_hmwrks_keys))
    ELSE IF homework.status \notin DOMAIN HOMEWORK_VERDICTS
    THEN Result(Exc("ValueError", not_doc_status \o <<" ", homework.status>>),
                None, em)
    ELSE Result(NoError,
                StatusMessage(homework.homework_name,
                              HOMEWORK_VERDICTS[homework.status]), em)

\* parse_status(homework).  `"homework_name" not in homework` raises TypeError
\* itself when homework is a number.
parse_status(homework, em) ==
    IF homework.kind # "dict"
    THEN Result(Exc("TypeError", <<"argument of type 'int' is not iterable">>),
                None, em)
    ELSE IF ~homework.has_name \/ ~homework.has_status
    THEN Result(Exc("KeyError", empty_hmwrks_keys), None,
                Append(em, empty_hmwrks_keys))
    ELSE IF homework.status \notin DOMAIN HOMEWORK_VERDICTS
    THEN LET error_message == not_doc_status \o <<" ", homework.status>>
         IN  Result(Exc("ValueError", error_message), None,
                    Append(em, error_message))
    ELSE Result(NoError,
                StatusMessage(homework.homework_name,
                              HOMEWORK_VERDICTS[homework.status]), em)

\* One entry of the log of sends: the text, what the transport did with it,
\* and the place in main() that sent it.
Sent(text, outcome, phase) == [text |-> text, outcome |-> outcome, phase |-> phase]

\* The sends of a loop that translated every record beforehand.
RECURSIVE SendAll(_, _, _, _, _)
SendAll(hws, i, outs, em, log) ==
    IF i > Len(hws) THEN [raised |-> NoError, error_messages |-> em, sent |-> log]
    ELSE LET text == parse_status(hws[i], em).value
             s == send_message(text, outs[i])
             log2 == Append(log, Sent(text, outs[i], "process"))
         IN  IF s.raised # NoError
             THEN [raised |-> s.raised, error_messages |-> em, sent |-> log2]
             ELSE SendAll(hws, i + 1, outs, em, log2)

\* The loop with every record translated before the first send: a record
\* that cannot be translated keeps the records before it from being sent.
ProcessHomeworks_TranslateFirst(hws, i, outs, em, log) ==
    LET bad == {j \in i..Len(hws) : parse_status(hws[j], em).raised # NoError}
    IN  IF bad = {} THEN SendAll(hws, i, outs, em, log)
        ELSE LET k == CHOOSE j \in bad : \A l \in bad : j <= l
                 p == parse_status(hws[k], em)
             IN  [raised |-> p.raised, error_messages |-> p.error_messages,
                  sent |-> log]

\* The for loop over response["homeworks"] (main, lines 190-193): each record
\* is translated and sent before the next one; the first exception ends it.
RECURSIVE ProcessHomeworks(_, _, _, _, _)
ProcessHomeworks(hws, i, outs, em, log) ==
    IF i > Len(hws) THEN [raised |-> NoError, error_messages |-> em, sent |-> log]
    ELSE LET p == parse_status(hws[i], em)
         IN  IF p.raised # NoError
             THEN [raised |-> p.raised, error_messages |-> p.error_messages,
                   sent |-> log]
             ELSE LET s == send_message(p.value, outs[i])
                      log2 == Append(log, Sent(p.value, outs[i], "process"))
                  IN  IF s.raised # NoError
                      THEN [raised |-> s.raised, error_messages |-> em, sent |-> log2]
                      ELSE ProcessHomeworks(hws, i + 1, outs, em, log2)

\* The processing step with the timestamp assigned before the loop instead
\* of after it: it advances even when a translation or a send raises.
ProcessStep_AdvanceFirst(resp, outs, em, ts) ==
    LET r == ProcessHomeworks(resp.homeworks, 1, outs, em, <<>>)
    IN  [raised |-> r.raised, error_messages |-> r.error_messages, sent |-> r.sent,
         timestamp |-> resp.current_date]

\* The processing step of the try body (main, lines 190-197): the loop, then
\* timestamp = response["current_date"] when nothing was raised.
ProcessStep(resp, outs, em, ts) ==
    LET r == ProcessHomeworks(resp.homeworks, 1, outs, em, <<>>)
    IN  [raised |-> r.raised, error_messages |-> r.error_messages, sent |-> r.sent,
         timestamp |-> IF r.raised = NoError THEN resp.current_date ELSE ts]

\* The dedup test without its window: the same text is never sent again.
DedupAllows_TextOnly(msg, last_msg, cur_time, last_time) == msg # last_msg

\* The dedup test of the outer handler (main, lines 205-208).
DedupAllows(msg, last_msg, cur_time, last_time) ==
    msg # last_msg \/ cur_time - last_time > RETRY_PERIOD_ERROR_TIME

\* The drain with the removal left out: a delivered entry stays queued.
RECURSIVE DrainLoop_NoRemove(_, _, _, _, _)
DrainLoop_NoRemove(em, i, outs, k, log) ==
    IF i > Len(em) THEN [raised |-> NoError, error_messages |-> em, sent |-> log]
    ELSE LET s == send_message(em[i], outs[k + 1])
             log2 == Append(log, Sent(em[i], outs[k + 1], "drain"))
         IN  IF s.raised # NoError
             THEN [raised |-> s.raised, error_messages |-> em, sent |-> log2]
             ELSE DrainLoop_NoRemove(em, i + 1, outs, k + 1, log2)

\* The drain (main, lines 218-220): `for error_message in error_messages`
\* reads the list by index while the body removes from it.  i is the
\* iterator's index, k the number of sends made so far.
RECURSIVE DrainLoop(_, _, _, _, _)
DrainLoop(em, i, outs, k, log) ==
    IF i > Len(em) THEN [raised |-> NoError, error_messages |-> em, sent |-> log]
    ELSE LET error_message == em[i]
             s == send_message(error_message, outs[k + 1])
             log2 == Append(log, Sent(error_message, outs[k + 1], "drain"))
         IN  IF s.raised # NoError
             THEN [raised |-> s.raised, error_messages |-> em, sent |-> log2]
             ELSE IF s.value
             THEN DrainLoop(Remove(em, error_message), i + 1, outs, k + 1, log2)
             ELSE DrainLoop(em, i + 1, outs, k + 1, log2)

(* -------------------------------- state -------------------------------- *)

VARIABLES
    pc,                  \* where the process is: START, POLLING, VALIDATING,
                         \* PROCESSING, HANDLER, DRAIN, SLEEPING, EXIT1, EXITED
    tokens,              \* TOKENS: the three credentials os.getenv gave
    now,                 \* time.time()
    timestamp,           \* main's timestamp, the from_date of the next fetch
    error_messages,      \* the module-level error backlog
    last_error_message,  \* main's dedup state: the last error text sent
    last_error_time,     \* ... and when it was sent
    response,            \* main's response
    error,               \* the exception the try body raised in this cycle
    message,             \* the handler's message
    current_time,        \* the handler's current_time
    pending,             \* the exception that left the except block
    http,                \* what this cycle's request met
    sent,                \* history: the sends of this cycle, in order
    from_date,           \* history: the from_date of this cycle's request
    em0,                 \* history: error_messages when this cycle started
    drain0,              \* history: error_messages when this cycle's drain started
    direct,              \* history: what the handler did with its message
    prev,                \* history: how the cycle before this one went
    cycle                \* history: the number of cycles started

vars ==
    <<pc, tokens, now, timestamp, error_messages, last_error_message,
      last_error_time, response, error, message, current_time, pending, http,
      sent, from_date, em0, drain0, direct, prev, cycle>>

\* The sends of the log s made in the given place of main().
SendsOf(s, phase) == SelectSeq(s, LAMBDA e : e.phase = phase)

\* The texts of the log s whose send did not deliver.
Undelivered(s) == {s[i].text : i \in {j \in DOMAIN s : s[j].outcome # "delivered"}}

\* The text of the last send of the log s that did not deliver, or None.
RECURSIVE LastUndelivered(_)
LastUndelivered(s) ==
    IF s = <<>> THEN None
    ELSE IF s[Len(s)].outcome # "delivered" THEN s[Len(s)].text
    ELSE LastUndelivered(SubSeq(s, 1, Len(s) - 1))

\* What `prev` records of a cycle: whether its try body raised, the handler's
\* message, what the handler did with it and when, the from_date it fetched
\* with (of a cycle that raised), and the text of the last send of its drain
\* that failed.
CycleRecord(failed, msg, dir, time, from, undelivered) ==
    [failed |-> failed, message |-> msg, direct |-> dir, time |-> time,
     from_date |-> from, undelivered |-> undelivered]

NoCycle == CycleRecord(FALSE, None, "none", 0, 0, None)

Init ==
    /\ pc = "START"
    /\ tokens \in [{TokenNames[i] : i \in 1..Len(TokenNames)} -> TokenValues]
    /\ now = StartTime
    /\ timestamp = 0
    /\ error_messages = <<>>
    /\ last_error_message = None
    /\ last_error_time = 0
    /\ response = Unset
    /\ error = NoError
    /\ message = None
    /\ current_time = 0
    /\ pending = NoError
    /\ http = NoHttp
    /\ sent = <<>>
    /\ from_date = 0
    /\ em0 = <<>>
    /\ drain0 = <<>>
    /\ direct = "none"
    /\ prev = NoCycle
    /\ cycle = 0

(* ------------------------------- actions ------------------------------- *)

\* main, lines 174-182: check_tokens, then timestamp = int(time.time()).
Start ==
    /\ pc = "START"
    /\ LET c == check_tokens(tokens)
       IN  IF c.exit # 0 \/ ~c.value
           THEN pc' = "EXIT1" /\ UNCHANGED timestamp
           ELSE pc' = "POLLING" /\ timestamp' = now
    /\ UNCHANGED <<tokens, now, error_messages, last_error_message,
                   last_error_time, response, error, message, current_time,
                   pending, http, sent, from_date, em0, drain0, direct, prev, cycle>>

\* main, line 186: a cycle starts with get_api_answer(timestamp); the request
\* may block for a while.
PollWith(outcomes) ==
    /\ pc = "POLLING"
    /\ cycle < MaxCycles
    /\ cycle' = cycle + 1
    /\ \E h \in outcomes, d \in Delays :
         LET r == get_api_answer(h, error_messages)
         IN  /\ Len(r.error_messages) + (IF r.raised = NoError THEN 0 ELSE 1)
                    <= MaxBacklog
             /\ now' = now + d
             /\ http' = h
             /\ error_messages' = r.error_messages
             /\ response' = r.value
             /\ error' = r.raised
             /\ pc' = IF r.raised = NoError THEN "VALIDATING" ELSE "HANDLER"
    /\ from_date' = timestamp
    /\ em0' = error_messages
    /\ UNCHANGED <<tokens, timestamp, last_error_message, last_error_time,
                   message, current_time, pending, sent, drain0, direct, prev>>

Poll == PollWith(LoopHttpOutcomes)

\* The transport's answers to the sends of a loop are drawn for as many sends
\* as the loop can make; the answers to sends it did not make are not drawn
\* twice.
OnlyUsed(outs, n) == \A j \in DOMAIN outs : j > n => outs[j] = "delivered"

\* main, line 188: response = check_response(response).
Validate ==
    /\ pc = "VALIDATING"
    /\ LET r == check_response(response, error_messages)
       IN  /\ Len(r.error_messages) + (IF r.raised = NoError THEN 0 ELSE 1)
                  <= MaxBacklog
           /\ error_messages' = r.error_messages
           /\ error' = r.raised
           /\ response' = IF r.raised = NoError THEN r.value ELSE response
           /\ pc' = IF r.raised = NoError THEN "PROCESSING" ELSE "HANDLER"
    /\ UNCHANGED <<tokens, now, timestamp, last_error_message, last_error_time,
                   message, current_time, pending, http, sent, from_date, em0,
                   drain0, direct, prev, cycle>>

\* main, lines 190-197: translate and send every homework, then advance the
\* timestamp.
ProcessWith(outcomes) ==
    /\ pc = "PROCESSING"
    /\ \E outs \in [1..Len(response.homeworks) -> outcomes] :
         LET r == ProcessStep(response, outs, error_messages, timestamp)
         IN  /\ OnlyUsed(outs, Len(r.sent))
             /\ Len(r.error_messages) + (IF r.raised = NoError THEN 0 ELSE 1)
                    <= MaxBacklog
             /\ error_messages' = r.error_messages
             /\ error' = r.raised
             /\ sent' = sent \o r.sent
             /\ timestamp' = r.timestamp
             /\ pc' = IF r.raised = NoError THEN "DRAIN" ELSE "HANDLER"
    /\ drain0' = IF pc' = "DRAIN" THEN error_messages' ELSE drain0
    /\ UNCHANGED <<tokens, now, last_error_message, last_error_time, response,
                   message, current_time, pending, http, from_date, em0, direct, prev,
                   cycle>>

Process == ProcessWith(SendOutcomes)

\* main, lines 199-215: the outer handler queues its message and, when the
\* dedup test allows, sends it; an exception of that send leaves the except
\* block and is raised again once the finally block is done.
Handler ==
    /\ pc = "HANDLER"
    /\ LET msg == <<"Sboy v rabote programmy: ">> \o StrOfError(error)
       IN  /\ message' = msg
           /\ error_messages' = Append(error_messages, msg)
           /\ drain0' = Append(error_messages, msg)
           /\ current_time' = now
           /\ IF DedupAllows(msg, last_error_message, now, last_error_time)
              THEN \E o \in SendOutcomes :
                     LET s == send_message(msg, o)
                     IN  /\ sent' = Append(sent, Sent(msg, o, "handler"))
                         /\ pending' = s.raised
                         /\ IF s.raised = NoError /\ s.value
                            THEN /\ last_error_message' = msg
                                 /\ last_error_time' = now
                                 /\ direct' = "delivered"
                            ELSE /\ UNCHANGED <<last_error_message, last_error_time>>
                                 /\ direct' = IF s.raised = NoError
                                              THEN "failed" ELSE "raised"
              ELSE /\ direct' = "suppressed"
                   /\ UNCHANGED <<sent, pending, last_error_message,
                                  last_error_time>>
    /\ pc' = "DRAIN"
    /\ UNCHANGED <<tokens, now, timestamp, response, error, http, from_date, em0, prev,
                   cycle>>

\* main, lines 216-226: the drain of the finally block; an exception of a send
\* is caught and logged, and ends the drain.
DrainWith(outcomes) ==
    /\ pc = "DRAIN"
    /\ \E outs \in [1..Len(error_messages) -> outcomes] :
         LET r == DrainLoop(error_messages, 1, outs, 0, <<>>)
         IN  /\ OnlyUsed(outs, Len(r.sent))
             /\ error_messages' = r.error_messages
             /\ sent' = sent \o r.sent
    /\ pc' = "SLEEPING"
    /\ UNCHANGED <<tokens, now, timestamp, last_error_message, last_error_time,
                   response, error, message, current_time, pending, http, from_date,
                   em0, drain0, direct, prev, cycle>>

Drain == DrainWith(SendOutcomes)

\* main, line 228: time.sleep(RETRY_PERIOD) ends the finally block; then the
\* loop goes round, or the pending exception leaves main().  The cycle's
\* locals and history are forgotten; prev keeps how the cycle went.
SleepFor(seconds) ==
    /\ pc = "SLEEPING"
    /\ now' = now + seconds
    /\ pc' = IF pending = NoError THEN "POLLING" ELSE "EXITED"
    /\ prev' = CycleRecord(error # NoError, message, direct, current_time,
                            IF error # NoError THEN from_date ELSE 0,
                            LastUndelivered(SendsOf(sent, "drain")))
    /\ response' = Unset
    /\ error' = NoError
    /\ message' = None
    /\ current_time' = 0
    /\ http' = NoHttp
    /\ sent' = <<>>
    /\ from_date' = 0
    /\ em0' = <<>>
    /\ drain0' = <<>>
    /\ direct' = "none"
    /\ UNCHANGED <<tokens, timestamp, error_messages, last_error_message,
                   last_error_time, pending, cycle>>

\* The sleep as the last statement of the try body instead of the finally
\* block: a cycle that raised goes round at once.
Sleep_InTryBody == SleepFor(IF error = NoError THEN RETRY_PERIOD ELSE 0)

Sleep == SleepFor(RETRY_PERIOD)

Next == Start \/ Poll \/ Validate \/ Process \/ Handler \/ Drain \/ Sleep

Spec == Init /\ [][Next]_vars

(* ----------------- the fetch and the validation alone ------------------ *)

\* get_api_answer and check_response on every request outcome and body of
\* HttpOutcomes, called as main() calls them in the first steps of a cycle,
\* with an empty backlog and with one that holds an entry.
FnInit ==
    /\ pc = "POLLING"
    /\ tokens = [n \in {TokenNames[i] : i \in 1..Len(TokenNames)} |->
                    [isNone |-> FALSE, str |-> "value"]]
    /\ now = StartTime
    /\ timestamp = StartTime
    /\ error_messages \in {<<>>, <<api_is_not_dict>>}
    /\ last_error_message = None
    /\ last_error_time = 0
    /\ response = Unset
    /\ error = NoError
    /\ message = None
    /\ current_time = 0
    /\ pending = NoError
    /\ http = NoHttp
    /\ sent = <<>>
    /\ from_date = 0
    /\ em0 = <<>>
    /\ drain0 = <<>>
    /\ direct = "none"
    /\ prev = NoCycle
    /\ cycle = 0

PollAny == PollWith(HttpOutcomes)

FnNext == PollAny \/ Validate

FnSpec == FnInit /\ [][FnNext]_vars

(* ------------------------- the try body alone -------------------------- *)

\* The whole try body of one cycle (main, lines 185-197) on every body of
\* HttpOutcomes, so that parse_status meets every record of HomeworkRecords
\* at every place of a list.
TryNext == PollAny \/ Validate \/ Process

TrySpec == FnInit /\ [][TryNext]_vars

(* ------------------ the loop once nothing fails any more ---------------- *)

\* Two texts the loop queues for one failure: the validator's and the
\* handler's.
QueuedTexts ==
    {api_is_not_dict,
     <<"Sboy v rabote programmy: ">> \o StrOfError(Exc("TypeError", api_is_not_dict))}

\* What earlier cycles may have left in error_messages.
Backlogs == UNION {[1..n -> QueuedTexts] : n \in 0..MaxBacklog}

\* The answers of the API that take a cycle through its try body.
GoodHttpOutcomes ==
    {h \in LoopHttpOutcomes :
        /\ get_api_answer(h, <<>>).raised = NoError
        /\ check_response(h.body, <<>>).raised = NoError
        /\ \A i \in DOMAIN h.body.homeworks :
               parse_status(h.body.homeworks[i], <<>>).raised = NoError}

\* The start of a cycle of main's loop (line 184) with some backlog left by
\* the cycles before it, none of whose direct sends was delivered.
LiveInit ==
    /\ pc = "POLLING"
    /\ tokens = [n \in {TokenNames[i] : i \in 1..Len(TokenNames)} |->
                    [isNone |-> FALSE, str |-> "value"]]
    /\ now = StartTime
    /\ timestamp = StartTime
    /\ error_messages \in Backlogs
    /\ last_error_message = None
    /\ last_error_time = 0
    /\ response = Unset
    /\ error = NoError
    /\ message = None
    /\ current_time = 0
    /\ pending = NoError
    /\ http = NoHttp
    /\ sent = <<>>
    /\ from_date = 0
    /\ em0 = <<>>
    /\ drain0 = <<>>
    /\ direct = "none"
    /\ prev = NoCycle
    /\ cycle = 0

\* The steps of cycles in which nothing raises and every send is delivered.
GoodPoll == PollWith(GoodHttpOutcomes)

GoodProcess == ProcessWith({"delivered"})

GoodDrain == DrainWith({"delivered"})

LiveNext == GoodPoll \/ Validate \/ GoodProcess \/ GoodDrain \/ Sleep

\* main() is one thread that runs whenever it can: its next step is taken.
LiveSpec == LiveInit /\ [][LiveNext]_vars /\ WF_vars(LiveNext)

(* ------------------------------- claims -------------------------------- *)

\* How many entries of the sequence s are x.
Count(s, x) == Cardinality({i \in DOMAIN s : s[i] = x})

\* How many sends of the log s delivered the text t.
DeliveredCount(s, t) ==
    Cardinality({i \in DOMAIN s : s[i].text = t /\ s[i].outcome = "delivered"})

\* The try body and the except block of this cycle are over.
CycleDecided == pc \in {"DRAIN", "SLEEPING"}

\* This cycle's fetch, validation and the translation of every record of the
\* response complete without raising.
TranslatedAll ==
    /\ get_api_answer(http, <<>>).raised = NoError
    /\ check_response(http.body, <<>>).raised = NoError
    /\ \A i \in DOMAIN http.body.homeworks :
           parse_status(http.body.homeworks[i], <<>>).raised = NoError

\* C1: the stored timestamp differs from the from_date of the cycle's fetch
\* only once the try body is over, only if fetch, validation and every
\* translation completed without raising, and it is then the response's
\* current_date; in a cycle whose try body raised it is the from_date still,
\* and the cycle after a failed one fetches with the failed one's from_date.
C1_TimestampAdvance ==
    /\ pc \in {"VALIDATING", "PROCESSING", "HANDLER"} => timestamp = from_date
    /\ CycleDecided /\ timestamp # from_date =>
           /\ TranslatedAll
           /\ error = NoError
           /\ timestamp = http.body.current_date
    /\ CycleDecided /\ error = NoError => timestamp = http.body.current_date
    /\ CycleDecided /\ error # NoError => timestamp = from_date
    /\ pc \in {"VALIDATING", "PROCESSING", "HANDLER", "DRAIN", "SLEEPING"}
       /\ prev.failed => from_date = prev.from_date

\* C1 witness: a cycle that failed after an earlier cycle had advanced the
\* timestamp, which is left where that earlier cycle put it.
C1_Witness ==
    /\ pc = "SLEEPING"
    /\ cycle = 2
    /\ error # NoError
    /\ ~prev.failed
    /\ timestamp = from_date
    /\ timestamp # StartTime

\* C2 (as claimed): when the cycle before failed with this same message and
\* delivered it, and this cycle fails less than 5000 seconds later, no copy of
\* the message is delivered in this cycle; more than 5000 seconds later, the
\* handler sends it again.
C2_DedupLaw ==
    (/\ pc = "SLEEPING"
     /\ error # NoError
     /\ prev.failed
     /\ prev.direct = "delivered"
     /\ prev.message = message)
    => /\ current_time - prev.time < RETRY_PERIOD_ERROR_TIME
              => DeliveredCount(sent, message) = 0
       /\ current_time - prev.time > RETRY_PERIOD_ERROR_TIME
              => direct # "suppressed"

\* No send of this cycle's drain raised.
DrainDidNotRaise ==
    \A i \in DOMAIN sent :
        sent[i].phase = "drain" =>
            send_message(sent[i].text, sent[i].outcome).raised = NoError

\* C3 (as claimed, for a drain none of whose sends raises): the drain sends
\* every entry the backlog had when it started, in order, and leaves exactly
\* the entries whose send failed.
C3_DrainLaw ==
    (pc = "SLEEPING" /\ DrainDidNotRaise) =>
        LET d == SendsOf(sent, "drain")
        IN  /\ Len(d) = Len(drain0)
            /\ \A i \in DOMAIN d : d[i].text = drain0[i]
            /\ \A t \in {drain0[i] : i \in DOMAIN drain0} :
                   Count(error_messages, t) = Count(drain0, t) - DeliveredCount(d, t)

\* C4 (as claimed): once the handler's send of its message delivered, that
\* occurrence is not in the backlog (which holds the message no more often
\* than when the cycle started) and is not delivered again: the message is
\* delivered in this cycle at most once more than the backlog held it.
C4_DeliveredOnce ==
    (CycleDecided /\ direct = "delivered") =>
        /\ Count(error_messages, message) <= Count(em0, message)
        /\ pc = "SLEEPING" =>
               DeliveredCount(sent, message) <= 1 + Count(em0, message)

\* C5 (as claimed, for drains none of whose sends raises): the drain removes
\* an entry only when a send of its text delivered, an entry whose send failed
\* stays, and the text whose send failed last in the drain of the cycle
\* before is sent again in this cycle's drain.
C5_RetryNextCycle ==
    (pc = "SLEEPING" /\ DrainDidNotRaise) =>
        LET d == SendsOf(sent, "drain")
        IN  /\ \A t \in {drain0[i] : i \in DOMAIN drain0} :
                   /\ Count(drain0, t) - Count(error_messages, t)
                          <= DeliveredCount(d, t)
                   /\ t \in Undelivered(d) => Count(error_messages, t) > 0
            /\ prev.undelivered # None
                   => \E i \in DOMAIN d : d[i].text = prev.undelivered

\* C6 (as claimed): main() never exits once the loop has started.
C6_NeverExits == pc # "EXITED"

\* C7 (as claimed): whatever the transport did with a send, send_message
\* raised nothing and returned true exactly when the message was delivered.
C7_SendNeverRaises ==
    \A i \in DOMAIN sent :
        LET s == send_message(sent[i].text, sent[i].outcome)
        IN  /\ s.raised = NoError
            /\ s.value = (sent[i].outcome = "delivered")

\* C8 (as claimed): a cycle whose try body raised queued exactly one entry,
\* sent its message at most once (exactly once when the dedup test allowed it
\* and every send delivered), and left the timestamp alone.
C8_AbortedCycle ==
    (pc = "SLEEPING" /\ error # NoError) =>
        /\ Len(drain0) = Len(em0) + 1
        /\ Cardinality({i \in DOMAIN sent : sent[i].text = message}) <= 1
        /\ (direct # "suppressed"
            /\ \A i \in DOMAIN sent : sent[i].outcome = "delivered")
               => DeliveredCount(sent, message) = 1
        /\ timestamp = from_date

\* get_api_answer has returned or raised, and nothing ran since.
AfterFetch == pc = "VALIDATING" \/ (pc = "HANDLER" /\ response = Unset)

\* The call appended exactly one entry to the backlog em0.
AppendedOne ==
    /\ Len(error_messages) = Len(em0) + 1
    /\ SubSeq(error_messages, 1, Len(em0)) = em0

\* C9 (as claimed): get_api_answer raises ApiErrorException for a transport
\* failure, NotAvailableEndPointException for every status that is not 200,
\* ApiErrorException for a body that is not JSON, each with one entry appended
\* to the backlog, and returns the decoded body otherwise, the backlog as it
\* was.
C9_FetchClassification ==
    AfterFetch =>
        IF http.net # "ok"
        THEN error.type = "ApiErrorException" /\ AppendedOne
        ELSE IF http.status_code # HTTP_OK
        THEN error.type = "NotAvailableEndPointException" /\ AppendedOne
        ELSE IF ~http.json_ok
        THEN error.type = "ApiErrorException" /\ AppendedOne
        ELSE error = NoError /\ response = http.body /\ error_messages = em0

\* check_response has returned or raised, and nothing ran since.
AfterValidate == pc = "PROCESSING" \/ (pc = "HANDLER" /\ response # Unset)

\* C10: check_response raises TypeError for a body that is no mapping,
\* KeyError for a mapping without `homeworks` or `current_date`, TypeError for
\* one whose `homeworks` is no list, each with one entry appended to the
\* backlog; any other body is returned as it is with the backlog as it was,
\* and validating what was returned returns it again.
C10_Validation ==
    AfterValidate =>
        LET b == http.body
        IN  IF b.kind # "dict"
            THEN error.type = "TypeError" /\ AppendedOne
            ELSE IF ~b.has_homeworks \/ ~b.has_current_date
            THEN error.type = "KeyError" /\ AppendedOne
            ELSE IF ~b.homeworks_is_list
            THEN error.type = "TypeError" /\ AppendedOne
            ELSE /\ error = NoError
                 /\ response = b
                 /\ error_messages = em0
                 /\ check_response(response, error_messages)
                        = Result(NoError, b, em0)

\* C10 witness: a mapping with `homeworks` but no `current_date` was rejected
\* with KeyError while the backlog already held an entry.
C10_Witness ==
    /\ AfterValidate
    /\ http.body.kind = "dict"
    /\ http.body.has_homeworks
    /\ ~http.body.has_current_date
    /\ error.type = "KeyError"
    /\ em0 # <<>>
    /\ AppendedOne

\* The loop over the records has ended, by its last record or by an exception,
\* and nothing ran since.
AfterProcess ==
    /\ pc = "HANDLER" \/ (pc = "DRAIN" /\ error = NoError)
    /\ get_api_answer(http, <<>>).raised = NoError
    /\ check_response(http.body, <<>>).raised = NoError

\* The sends of the loop over the records, in the order they were made.
StatusSends == SendsOf(sent, "process")

\* The record after the last one sent was translated: no send of the loop
\* raised, and the loop did not run out of records.
TranslationRaised ==
    /\ AfterProcess
    /\ Len(StatusSends) < Len(http.body.homeworks)
    /\ \A i \in DOMAIN StatusSends : StatusSends[i].outcome # "ConnectionError"

\* The sentence of section 4.4 for a name and one of the three statuses.
Sentence(name, status) ==
    <<"Izmenilsya status proverki raboty \"", name, "\". ">>
    \o (CASE status = "approved" ->
                <<"Rabota proverena: revyueru vsyo ponravilos. Ura!">>
          [] status = "reviewing" -> <<"Rabota vzyata na proverku revyuerom.">>
          [] status = "rejected" ->
                <<"Rabota proverena: u revyuera est zamechaniya.">>)

\* The mapping has both keys and one of the three statuses.
WellFormed(h) ==
    h.has_name /\ h.has_status /\ h.status \in {"approved", "reviewing", "rejected"}

\* C11: parse_status returns the fixed sentence with the name and the verdict
\* of the status for every mapping that has `homework_name` and one of the
\* three statuses, raises KeyError when one of the two keys is absent and
\* ValueError for any other status; a call that raises appends exactly one
\* entry to the backlog, a call that returns appends none.
C11_ParseStatus ==
    AfterProcess =>
        LET hws == http.body.homeworks
            n == Len(StatusSends)
        IN  /\ \A i \in 1..n :
                   hws[i].kind = "dict" =>
                       /\ WellFormed(hws[i])
                       /\ StatusSends[i].text
                              = Sentence(hws[i].homework_name, hws[i].status)
            /\ TranslationRaised /\ hws[n + 1].kind = "dict" =>
                   /\ ~WellFormed(hws[n + 1])
                   /\ error.type = IF hws[n + 1].has_name /\ hws[n + 1].has_status
                                   THEN "ValueError" ELSE "KeyError"
                   /\ AppendedOne
            /\ ~TranslationRaised => error_messages = em0

\* C11 witness: the first record was translated and sent, the second has an
\* undocumented status and raised ValueError, and the backlog, which held an
\* entry already, has one more.
C11_Witness ==
    /\ TranslationRaised
    /\ Len(StatusSends) = 1
    /\ StatusSends[1].text = Sentence("hw1", "rejected")
    /\ http.body.homeworks[2].status = "unknown_status"
    /\ error.type = "ValueError"
    /\ em0 # <<>>
    /\ AppendedOne

\* C12: every cycle, whether its try body raised or not, goes fetch,
\* validation, processing, (handler,) drain, sleep: the drain is entered once,
\* after the try body or the handler, and only it makes the drain's sends;
\* the sleep follows the drain, lasts RETRY_PERIOD, and only it leads to the
\* next fetch; no other step but the fetch lets time pass.
C12_CycleOrder ==
    [][/\ pc = "POLLING" => pc' \in {"VALIDATING", "HANDLER"}
       /\ pc = "VALIDATING" => pc' \in {"PROCESSING", "HANDLER"} /\ now' = now
       /\ pc = "PROCESSING" => pc' \in {"DRAIN", "HANDLER"} /\ now' = now
       /\ pc = "HANDLER" => pc' = "DRAIN" /\ now' = now
       /\ pc = "DRAIN" => pc' = "SLEEPING" /\ now' = now
       /\ pc = "SLEEPING" =>
              /\ pc' \in {"POLLING", "EXITED"}
              /\ now' = now + RETRY_PERIOD
       /\ pc' = "POLLING" => pc \in {"START", "SLEEPING"}
       /\ pc' = "SLEEPING" => pc = "DRAIN"
       /\ pc # "DRAIN" /\ pc # "SLEEPING" =>
              SendsOf(sent', "drain") = SendsOf(sent, "drain")
       /\ pc' = "DRAIN" => SendsOf(sent', "drain") = <<>>]_vars

\* C12 witness: a second cycle, after a first one that raised and slept,
\* raised in its fetch, went through the handler and the drain, which sent,
\* and is about to sleep.
C12_Witness ==
    /\ pc = "SLEEPING"
    /\ cycle = 2
    /\ prev.failed
    /\ response = Unset
    /\ error # NoError
    /\ SendsOf(sent, "drain") # <<>>
    /\ now >= StartTime + RETRY_PERIOD

\* C13 (as claimed): a cycle that began with an empty backlog and whose
\* response is valid with documented statuses only has sent, by the time it
\* sleeps, one status message for each record, in order, and nothing else
\* (nothing at all when `homeworks` is empty), and the stored timestamp is the
\* response's current_date.
C13_CleanCycle ==
    pc = "SLEEPING" /\ em0 = <<>> /\ TranslatedAll =>
        LET hws == http.body.homeworks
        IN  /\ Len(sent) = Len(hws)
            /\ \A i \in DOMAIN sent :
                   /\ sent[i].phase = "process"
                   /\ sent[i].text = Sentence(hws[i].homework_name, hws[i].status)
            /\ timestamp = http.body.current_date

\* C14 (as claimed): the stored timestamp never decreases: at no point of a
\* cycle is it below the from_date the cycle fetched with.
C14_Monotonic ==
    pc \in {"VALIDATING", "PROCESSING", "HANDLER", "DRAIN", "SLEEPING"} =>
        timestamp >= from_date

\* One of the three credentials is None or the empty string.
CredentialMissing ==
    \E n \in DOMAIN tokens : tokens[n].isNone \/ tokens[n].str = ""

\* C15: when a credential is missing or empty the process ends with exit
\* code 1 before the loop: no cycle starts, nothing is fetched and nothing is
\* sent; check_tokens returns True exactly when all three are non-empty, and
\* then the process does not end that way.
C15_Credentials ==
    /\ CredentialMissing =>
           /\ pc \in {"START", "EXIT1"}
           /\ cycle = 0
           /\ http = NoHttp
           /\ sent = <<>>
           /\ prev = NoCycle
           /\ timestamp = 0
    /\ ~CredentialMissing => pc # "EXIT1"
    /\ check_tokens(tokens).value = ~CredentialMissing
    /\ (check_tokens(tokens).exit = 1) = CredentialMissing

\* C15 witness: the chat id alone is the empty string, and the process has
\* ended with exit code 1.
C15_Witness ==
    /\ pc = "EXIT1"
    /\ tokens["PRACTICUM_TOKEN"] = [isNone |-> FALSE, str |-> "value"]
    /\ tokens["TELEGRAM_TOKEN"] = [isNone |-> FALSE, str |-> "value"]
    /\ tokens["TELEGRAM_CHAT_ID"] = [isNone |-> FALSE, str |-> ""]

\* C16: the outer handler attempts the direct send of its text exactly when
\* the text differs from last_error_message or more than
\* RETRY_PERIOD_ERROR_TIME seconds have passed since last_error_time;
\* last_error_message and last_error_time become the text and the time of the
\* attempt when the send is delivered, and no other step changes them: not a
\* suppressed error, not a send that failed or raised, not the try body, the
\* drain or the sleep.
C16_DirectSend ==
    [][/\ pc = "HANDLER" =>
              LET allowed == \/ message' # last_error_message
                             \/ now - last_error_time > RETRY_PERIOD_ERROR_TIME
                  attempted == sent' # sent
                  delivered == attempted /\ sent'[Len(sent')].outcome = "delivered"
              IN  /\ attempted <=> allowed
                  /\ attempted =>
                         /\ Len(sent') = Len(sent) + 1
                         /\ sent'[Len(sent')].text = message'
                         /\ sent'[Len(sent')].phase = "handler"
                  /\ delivered =>
                         /\ last_error_message' = message'
                         /\ last_error_time' = now
                  /\ ~delivered => UNCHANGED <<last_error_message, last_error_time>>
       /\ pc # "HANDLER" =>
              /\ UNCHANGED <<last_error_message, last_error_time>>
              /\ SendsOf(sent', "handler") \in {SendsOf(sent, "handler"), <<>>}]_vars

\* C16 witness: the text of the failed cycle before was delivered by the
\* direct send then, more than RETRY_PERIOD_ERROR_TIME seconds passed, and the
\* same text has been sent directly and delivered again.
C16_Witness ==
    /\ pc = "DRAIN"
    /\ direct = "delivered"
    /\ prev.failed
    /\ prev.direct = "delivered"
    /\ prev.message = message
    /\ current_time - prev.time > RETRY_PERIOD_ERROR_TIME
    /\ last_error_message = message
    /\ last_error_time = current_time

\* The records whose translation raises.
Untranslatable ==
    {j \in DOMAIN http.body.homeworks :
        parse_status(http.body.homeworks[j], <<>>).raised # NoError}

\* C17: the records are processed in the order of the list, each one
\* translated and sent before the next is translated: the sends of the loop
\* are the messages of the first records of the list in their order, no send
\* but the last raised, and when the translation of the k-th record raises,
\* which is then the first record that cannot be translated, exactly the
\* k - 1 records before it were sent and none after it.
C17_InOrder ==
    AfterProcess =>
        LET hws == http.body.homeworks
            n == Len(StatusSends)
        IN  /\ n <= Len(hws)
            /\ \A i \in 1..n :
                   /\ StatusSends[i].text = parse_status(hws[i], <<>>).value
                   /\ i \notin Untranslatable
                   /\ i < n => StatusSends[i].outcome # "ConnectionError"
            /\ TranslationRaised =>
                   /\ n + 1 \in Untranslatable
                   /\ error = parse_status(hws[n + 1], <<>>).raised
            /\ ~TranslationRaised /\ n < Len(hws) =>
                   error = send_message(StatusSends[n].text, "ConnectionError").raised
            /\ n = Len(hws) /\ error = NoError => pc = "DRAIN"

\* C17 witness: in a list of two records the first was translated and its
\* send returned False, the second has no `homework_name` and raised
\* KeyError: one send, for the first record.
C17_Witness ==
    /\ TranslationRaised
    /\ Len(http.body.homeworks) = 2
    /\ Len(StatusSends) = 1
    /\ StatusSends[1].outcome = "ApiTelegramException"
    /\ StatusSends[1].text = Sentence("hw1", "reviewing")
    /\ ~http.body.homeworks[2].has_name
    /\ error.type = "KeyError"

\* The text is a status message, not an error message.
IsStatusMessage(text) ==
    text # <<>> /\ text[1] = "Izmenilsya status proverki raboty \""

\* C18: a status message whose send returned False does not end the loop over
\* the records and is not queued: the next record, if there is one, is
\* translated (and sent, or its translation raises), the text is not in the
\* backlog and neither the handler nor the drain sends it, and when no
\* translation and no send of the cycle raised the stored timestamp is the
\* response's current_date; no status message is ever in the backlog or sent
\* outside the loop over the records, so no later cycle sends it either.
C18_FalseSendDropped ==
    /\ \A i \in DOMAIN StatusSends :
           StatusSends[i].outcome = "ApiTelegramException" =>
               LET hws == http.body.homeworks
                   t == StatusSends[i].text
               IN  /\ Count(error_messages, t) = 0
                   /\ Count(drain0, t) = 0
                   /\ \A j \in DOMAIN sent :
                          sent[j].text = t => sent[j].phase = "process"
                   /\ i < Len(hws) =>
                          \/ Len(StatusSends) > i
                          \/ /\ i + 1 \in Untranslatable
                             /\ error = parse_status(hws[i + 1], <<>>).raised
                   /\ /\ CycleDecided
                      /\ TranslatedAll
                      /\ \A j \in DOMAIN StatusSends :
                             StatusSends[j].outcome # "ConnectionError"
                      => /\ error = NoError
                         /\ Len(StatusSends) = Len(hws)
                         /\ timestamp = http.body.current_date
    /\ \A k \in DOMAIN error_messages : ~IsStatusMessage(error_messages[k])
    /\ \A j \in DOMAIN sent :
           IsStatusMessage(sent[j].text) => sent[j].phase = "process"

\* C18 witness: the send of the first of two records returned False, the
\* second was delivered, the cycle did not raise, the timestamp is the
\* response's current_date and the drain, which had an entry of an earlier
\* cycle to send, is over.
C18_Witness ==
    /\ pc = "SLEEPING"
    /\ Len(StatusSends) = 2
    /\ StatusSends[1].outcome = "ApiTelegramException"
    /\ StatusSends[2].outcome = "delivered"
    /\ error = NoError
    /\ timestamp = http.body.current_date
    /\ SendsOf(sent, "drain") # <<>>

\* C19: once no cycle raises and every send is delivered, the backlog is
\* empty after finitely many cycles and stays empty.
C19_BacklogEmpties == <>[](error_messages = <<>>)

\* C19 witness: a second cycle without failure began with entries still in
\* the backlog, after a first one whose drain had sent and removed some, and
\* its drain has emptied it.
C19_Witness ==
    /\ pc = "SLEEPING"
    /\ cycle = 2
    /\ em0 # <<>>
    /\ error = NoError
    /\ SendsOf(sent, "drain") # <<>>
    /\ error_messages = <<>>

====
